---- MODULE Spec2Model ----
(***************************************************************************)
(* Model of otsutils' struct <-> row mapping: ParseObj (extract) and       *)
(* ParseResult (materialize) of parser.go; of the client and context       *)
(* parameters of client.go; and of PutRow, UpdateRow and GetRow of         *)
(* operations.go, run by executeOTSOperation of executor.go against a      *)
(* store that behaves as a map from primary key to columns.                *)
(*                                                                         *)
(* A Go string is a sequence of one-character strings, so that string      *)
(* comparison (pk tags) and strings.Index (json tag modifiers) are         *)
(* computed byte by byte as Go computes them.                              *)
(***************************************************************************)
EXTENDS Integers, Sequences, FiniteSets, TLC

VARIABLES
    typ,    \* the record type of obj: its fields in declaration order
    r,      \* the caller's record passed to ParseObj
    r2,     \* the caller's record passed to ParseResult
    out,    \* what the last ParseObj call returned: pks, cols, err
    resp,   \* key/value pairs of a row read from the store
    given,  \* the pks and cols passed to the last ParseResult call
    perr,   \* what the last ParseResult call returned
    op,     \* the last call made
    arg,    \* what the last call was given as obj
    calls,  \* number of ParseObj calls made
    ctx,    \* the context: the params attached by WithContext, innermost last
    client, \* the client the caller holds, as NewClient returned it
    creds,  \* the four strings given to the last NewClient call
    recv,   \* the params the last WithContext call was made on
    ret,    \* what the last OtsUtilsParamsFromCtx call returned
    fault,  \* whether the last call panicked
    store,  \* the table: primary key -> columns of the row
    prm,    \* the params given to the last PutRow, UpdateRow or GetRow
    req,    \* the request the last operation built
    oerr,   \* the error the last operation returned
    steps,  \* the steps the last operation ran
    anys,   \* the []any the last operation made of its params
    outage  \* whether the store failed remote calls during the last operation

\* the variables of the calls to ParseObj and ParseResult, of the client and
\* context, and of the operations
ctxVars == <<ctx, client, creds, recv, ret, fault>>
opsVars == <<store, prm, req, oerr, steps, anys, outage>>

vars == <<typ, r, r2, out, resp, given, perr, op, arg, calls, ctxVars, opsVars>>

----------------------------------------------------------------------------
\* Bounds

\* ParseObj calls made on one record
MaxCalls == 2

\* WithContext applications nested in one context
MaxDepth == 2

\* values passed for the variadic params of one operation
MaxParams == 2

\* key/value pairs in a row read from the store (primary keys plus columns)
MaxPairs == 2

----------------------------------------------------------------------------
\* Go strings

Digits == <<"0", "1", "2", "3", "4", "5", "6", "7", "8", "9">>

Lower == <<"a", "b", "c", "d", "e", "f", "g", "h", "i", "j", "k", "l", "m",
           "n", "o", "p", "q", "r", "s", "t", "u", "v", "w", "x", "y", "z">>

\* the byte value of a character
Byte(c) ==
    IF c = "," THEN 44
    ELSE IF \E i \in 1..Len(Digits) : Digits[i] = c
    THEN 47 + (CHOOSE i \in 1..Len(Digits) : Digits[i] = c)
    ELSE 96 + (CHOOSE i \in 1..Len(Lower) : Lower[i] = c)

RECURSIVE StrLessFrom(_, _, _)
StrLessFrom(a, b, i) ==
    IF i > Len(b) THEN FALSE
    ELSE IF i > Len(a) THEN TRUE
    ELSE IF Byte(a[i]) < Byte(b[i]) THEN TRUE
    ELSE IF Byte(a[i]) > Byte(b[i]) THEN FALSE
    ELSE StrLessFrom(a, b, i + 1)

\* a < b on Go strings: bytewise lexicographic
StrLess(a, b) == StrLessFrom(a, b, 1)

\* strings.Index(s, c) for a one-byte c: 0-based index of the first c, or -1
StringsIndex(s, c) ==
    IF \E i \in 1..Len(s) : s[i] = c
    THEN (CHOOSE i \in 1..Len(s) : s[i] = c /\ \A j \in 1..(i - 1) : s[j] # c) - 1
    ELSE -1

----------------------------------------------------------------------------
\* Go types and values

\* a field's declared type: pointer or not, the kind of the (pointed-to)
\* type, the element kind of a slice, and whether it is a named type
\* (type MyString string) rather than the predeclared one
GoType(ptr, kind, elem, named) ==
    [ptr |-> ptr, kind |-> kind, elem |-> elem, named |-> named]

PtrString == GoType(TRUE, "string", "", FALSE)
PtrInt64 == GoType(TRUE, "int64", "", FALSE)
PtrBytes == GoType(TRUE, "slice", "uint8", FALSE)
PtrMyString == GoType(TRUE, "string", "", TRUE)
PtrInt32 == GoType(TRUE, "int32", "", FALSE)
PtrInts == GoType(TRUE, "slice", "int", FALSE)
Bool == GoType(FALSE, "bool", "", FALSE)

\* a value with its dynamic type; s, i, b hold a string, an integer, bytes
GoValue(kind, elem, named, s, i, b) ==
    [kind |-> kind, elem |-> elem, named |-> named, s |-> s, i |-> i, b |-> b]

\* a nil pointer field
Nil == GoValue("nil", "", FALSE, "", 0, <<>>)

StringV(s) == GoValue("string", "", FALSE, s, 0, <<>>)
Int64V(i) == GoValue("int64", "", FALSE, "", i, <<>>)
BytesV(b) == GoValue("slice", "uint8", FALSE, "", 0, b)
MyStringV(s) == GoValue("string", "", TRUE, s, 0, <<>>)
Int32V(i) == GoValue("int32", "", FALSE, "", i, <<>>)
IntsV(b) == GoValue("slice", "int", FALSE, "", 0, b)
BoolV(i) == GoValue("bool", "", FALSE, "", i, <<>>)

StringVals == {"a", "b"}
Int64Vals == {-1, 7}
BytesVals == {<<>>, <<9>>}

\* fmt's %T of a value
TypeName(v) ==
    IF v.named THEN "otsutils.MyString"
    ELSE IF v.kind = "slice" THEN IF v.elem = "uint8" THEN "[]uint8" ELSE "[]int"
    ELSE v.kind

\* the values a field of declared type t can hold
FieldValues(t) ==
    IF ~t.ptr THEN {BoolV(0), BoolV(1)}
    ELSE {Nil} \cup
         (IF t.kind = "string" /\ t.named THEN {MyStringV(s) : s \in StringVals}
          ELSE IF t.kind = "string" THEN {StringV(s) : s \in StringVals}
          ELSE IF t.kind = "int64" THEN {Int64V(i) : i \in Int64Vals}
          ELSE IF t.kind = "int32" THEN {Int32V(1)}
          ELSE IF t.elem = "uint8" THEN {BytesV(b) : b \in BytesVals}
          ELSE {IntsV(<<1>>)})

\* the KeyValue struct: a column name and its value
KeyValue(k, v) == [Key |-> k, Value |-> v]

\* a slice of KeyValue, possibly nil
Slice(e) == [nil |-> FALSE, e |-> e]
NilSlice == [nil |-> TRUE, e |-> <<>>]

----------------------------------------------------------------------------
\* Record types: a struct type is the sequence of its fields

\* a struct field: Go name, declared type, the json and pk tags as
\* Tag.Get returns them (empty when absent), and whether it is exported
Field(name, t, json, pk, exported) ==
    [name |-> name, typ |-> t, json |-> json, pk |-> pk, exported |-> exported]

PK1 == Field("Pk1", PtrString, <<"p", "k", "1">>, <<"1">>, TRUE)
COL1 == Field("Col1", PtrString, <<"c", "o", "l", "1">>, <<>>, TRUE)
COL2 == Field("Col2", PtrInt64, <<"c", "o", "l", "2">>, <<>>, TRUE)
COL3 == Field("Col3", PtrString, <<"c", "o", "l", "3">>, <<>>, TRUE)

TestRow ==
    << PK1,
       Field("Pk2", PtrInt64, <<"p", "k", "2">>, <<"2">>, TRUE),
       Field("Pk3", PtrBytes, <<"p", "k", "3">>, <<"3">>, TRUE),
       COL1, COL2, COL3 >>

Obj ==
    << PK1,
       Field("Pk2", PtrInt64, <<"p", "k", "2">>, <<"1">>, TRUE),
       Field("Pk3", PtrBytes, <<"p", "k", "3">>, <<"1">>, TRUE),
       COL1, COL2, COL3 >>

MyRow == << PK1, COL1, COL2 >>

\* three key fields with the ordinals "2", "10" and "1"
OrdA == Field("A", PtrString, <<"a">>, <<"2">>, TRUE)
OrdB == Field("B", PtrInt64, <<"b">>, <<"1", "0">>, TRUE)
OrdC == Field("C", PtrBytes, <<"c">>, <<"1">>, TRUE)

OrdRows ==
    { <<OrdA, OrdB, OrdC>>, <<OrdA, OrdC, OrdB>>, <<OrdB, OrdA, OrdC>>,
      <<OrdB, OrdC, OrdA>>, <<OrdC, OrdA, OrdB>>, <<OrdC, OrdB, OrdA>> }

\* a field of an unsupported kind after valid ones
FlagRow == << PK1, Field("Flag", Bool, <<"f", "l", "a", "g">>, <<>>, TRUE), COL2 >>
Int32Row == << COL1, Field("N", PtrInt32, <<"n">>, <<>>, TRUE) >>
IntsRow == << Field("L", PtrInts, <<"l">>, <<>>, TRUE), COL1 >>

\* a json tag with a modifier, as the encoding/json convention allows
OmitRow ==
    << PK1,
       Field("Col1", PtrString,
             <<"c", "o", "l", "1", ",", "o", "m", "i", "t", "e", "m", "p", "t", "y">>,
             <<>>, TRUE) >>

\* a field without json tag; two fields with the same json tag; an
\* unexported field; a field of a named string type
NoTagRow ==
    << PK1, Field("Note", PtrString, <<>>, <<>>, TRUE),
       Field("Col4", PtrBytes, <<"c", "o", "l", "4">>, <<>>, TRUE) >>
DupRow == << PK1, COL1, Field("Col1b", PtrString, <<"c", "o", "l", "1">>, <<>>, TRUE) >>
HiddenRow == << PK1, Field("hidden", PtrString, <<"h">>, <<>>, FALSE) >>
NamedRow == << PK1, Field("Tag", PtrMyString, <<"t", "a", "g">>, <<>>, TRUE) >>

\* a json tag that is a modifier only: Tag.Get returns ",omitempty"
ModOnlyRow ==
    << PK1,
       Field("Opt", PtrString, <<",", "o", "m", "i", "t", "e", "m", "p", "t", "y">>,
             <<>>, TRUE) >>

RecordTypes ==
    {TestRow, Obj, MyRow, FlagRow, Int32Row, IntsRow, OmitRow, NoTagRow, DupRow,
     HiddenRow, NamedRow, ModOnlyRow} \cup OrdRows

\* the record types whose rows are read back from the store
StoreTypes ==
    {MyRow, FlagRow, OmitRow, NoTagRow, DupRow, HiddenRow, NamedRow, ModOnlyRow}

RECURSIVE RecordsUpTo(_, _)
RecordsUpTo(T, n) ==
    IF n = 0 THEN {<<>>}
    ELSE {Append(p, v) : p \in RecordsUpTo(T, n - 1), v \in FieldValues(T[n].typ)}

\* every record of type T
Records(T) == RecordsUpTo(T, Len(T))

\* the zero value of type T
Zero(T) == [i \in 1..Len(T) |-> IF T[i].typ.ptr THEN Nil ELSE BoolV(0)]

----------------------------------------------------------------------------
\* reflect on the obj argument

\* what a caller can pass as obj: an untyped nil, a record by value, a nil
\* pointer to a record, a pointer to an int, a pointer to a record
ArgKinds == {"nil", "struct", "nilptr", "ptrint", "ptr"}

\* a call whose obj points to a record
IsRecordPtr(a) == a = "ptr"

\* reflect.ValueOf(obj).Kind()
ValueKind(a) ==
    IF a = "nil" THEN "invalid" ELSE IF a = "struct" THEN "struct" ELSE "ptr"

\* reflect.ValueOf(obj).IsNil() of a pointer
IsNil(a) == a = "nilptr"

\* reflect.ValueOf(obj).Elem().Kind() of a pointer
ElemKind(a) ==
    IF a = "nilptr" THEN "invalid"
    ELSE IF a = "ptrint" THEN "int"
    ELSE "struct"

----------------------------------------------------------------------------
\* errors

Error(kind, field, key, origin, expected, actual) ==
    [kind |-> kind, field |-> field, key |-> key, origin |-> origin,
     expected |-> expected, actual |-> actual]

NoErr == Error("nil", "", <<>>, "", "", "")

\* fmt's %s of a declared type
TypeString(t) ==
    (IF t.ptr THEN "*" ELSE "") \o
    (IF t.named THEN "otsutils.MyString"
     ELSE IF t.kind = "slice" THEN IF t.elem = "uint8" THEN "[]uint8" ELSE "[]int"
     ELSE t.kind)

----------------------------------------------------------------------------
\* ParseObj

\* isValidPointerType letting every pointer to a sized integer through
isValidPointerTypeAnyInt(t) ==
    IF ~t.ptr THEN FALSE
    ELSE IF t.kind = "string" THEN TRUE
    ELSE IF t.kind = "int64" \/ t.kind = "int32" THEN TRUE
    ELSE IF t.kind = "slice" THEN t.elem = "uint8"
    ELSE FALSE

\* isValidPointerType: a pointer to string, int64 or []byte, by Kind
isValidPointerType(t) ==
    IF ~t.ptr THEN FALSE
    ELSE IF t.kind = "string" THEN TRUE
    ELSE IF t.kind = "int64" THEN TRUE
    ELSE IF t.kind = "slice" THEN t.elem = "uint8"
    ELSE FALSE

\* the nil check left out
FieldIsNilNever(v) == FALSE

\* field.IsNil() of a pointer field
FieldIsNil(v) == v = Nil

\* an entry of pkFields
pkField(jsonTag, pkTag, value) == [jsonTag |-> jsonTag, pkTag |-> pkTag, value |-> value]

\* strconv.Atoi of a string of digits
RECURSIVE Atoi(_)
Atoi(s) ==
    IF s = <<>> THEN 0
    ELSE 10 * Atoi(SubSeq(s, 1, Len(s) - 1)) + (Byte(s[Len(s)]) - 48)

\* pkLess comparing the ordinals as numbers
pkLessNumeric(x, y) == Atoi(x.pkTag) < Atoi(y.pkTag)

\* pkLess breaking ties between equal ordinals by the field values
pkLessByValue(x, y) ==
    \/ StrLess(x.pkTag, y.pkTag)
    \/ x.pkTag = y.pkTag /\ x.value.i < y.value.i

\* the less function given to sort.Slice
pkLess(x, y) == StrLess(x.pkTag, y.pkTag)

Swap(s, i, j) == [s EXCEPT ![i] = s[j], ![j] = s[i]]

\* the inner loop of the insertion sort: data[j] sinks while it is less
\* than its left neighbour
RECURSIVE Sink(_, _)
Sink(s, j) ==
    IF j > 1 /\ pkLess(s[j], s[j - 1]) THEN Sink(Swap(s, j, j - 1), j - 1) ELSE s

RECURSIVE InsertionSortFrom(_, _)
InsertionSortFrom(s, i) ==
    IF i > Len(s) THEN s ELSE InsertionSortFrom(Sink(s, i), i + 1)

\* sort.Slice(pkFields, less): for the at most 12 elements a struct of
\* this model has, Go's sort is this insertion sort
SortSlice(s) == InsertionSortFrom(s, 2)

\* pks as appended from the sorted pkFields
RECURSIVE PksOf(_, _)
PksOf(sorted, i) ==
    IF i > Len(sorted) THEN <<>>
    ELSE <<KeyValue(sorted[i].jsonTag, sorted[i].value)>> \o PksOf(sorted, i + 1)

\* ParseObj refusing a record that has no key field set
ParseObjResultRequireKey(pks, cols, err) ==
    IF err = NoErr /\ pks.e = <<>>
    THEN [pks |-> NilSlice, cols |-> NilSlice,
          err |-> Error("no primary key", "", <<>>, "", "", "")]
    ELSE [pks |-> pks, cols |-> cols, err |-> err]

ParseObjResult(pks, cols, err) == [pks |-> pks, cols |-> cols, err |-> err]

\* the loop over the fields of the struct, from field i on, with the
\* pkFields and cols collected so far
RECURSIVE ParseObjFields(_, _, _, _, _)
ParseObjFields(T, rec, i, pkFields, cols) ==
    IF i > Len(T)
    THEN ParseObjResult(Slice(PksOf(SortSlice(pkFields), 1)), Slice(cols), NoErr)
    ELSE IF ~isValidPointerType(T[i].typ)
    THEN ParseObjResult(NilSlice, NilSlice,
             Error("invalid field type", T[i].name, <<>>, "", "", TypeString(T[i].typ)))
    ELSE IF FieldIsNil(rec[i])
    THEN ParseObjFields(T, rec, i + 1, pkFields, cols)
    ELSE IF ~T[i].exported
    \* Interface() of a value read from an unexported field panics
    THEN ParseObjResult(NilSlice, NilSlice,
             Error("panic", T[i].name, <<>>, "", "", ""))
    ELSE IF T[i].pk # <<>>
    THEN ParseObjFields(T, rec, i + 1,
             Append(pkFields, pkField(T[i].json, T[i].pk, rec[i])), cols)
    ELSE ParseObjFields(T, rec, i + 1, pkFields,
             Append(cols, KeyValue(T[i].json, rec[i])))

\* ParseObj that also takes a record passed by value
ParseObjByValue(a, T, rec) ==
    IF ValueKind(a) = "struct" THEN ParseObjFields(T, rec, 1, <<>>, <<>>)
    ELSE IF ValueKind(a) # "ptr"
    THEN ParseObjResult(NilSlice, NilSlice,
             Error("obj must be a pointer", "", <<>>, "", "", ""))
    ELSE IF ElemKind(a) # "struct"
    THEN ParseObjResult(NilSlice, NilSlice,
             Error("obj must be a struct or pointer to struct", "", <<>>, "", "", ""))
    ELSE ParseObjFields(T, rec, 1, <<>>, <<>>)

\* ParseObj(ctx, obj) for obj passed as a, of record type T and, where obj
\* points to a record, with the fields rec
ParseObj(a, T, rec) ==
    IF ValueKind(a) # "ptr"
    THEN ParseObjResult(NilSlice, NilSlice,
             Error("obj must be a pointer", "", <<>>, "", "", ""))
    ELSE IF ElemKind(a) # "struct"
    THEN ParseObjResult(NilSlice, NilSlice,
             Error("obj must be a struct or pointer to struct", "", <<>>, "", "", ""))
    ELSE ParseObjFields(T, rec, 1, <<>>, <<>>)

----------------------------------------------------------------------------
\* ParseResult

\* typeMismatchError wrapped by nothing yet
typeMismatchError(fieldType, value) ==
    Error("type mismatch", "", <<>>, "", fieldType, TypeName(value))

AssignResult(val, err) == [val |-> val, err |-> err]

\* assignToPointerField: the new value of a field of declared type t
\* (reflect.New(elemType) set from value), or an error; old is the value
\* the field keeps on error
assignToPointerField(t, old, value) ==
    IF ~t.ptr
    THEN AssignResult(old, Error("field is not a pointer", "", <<>>, "", "", t.kind))
    ELSE IF t.kind = "string"
    THEN IF value.kind = "string" /\ ~value.named
         THEN AssignResult(GoValue("string", "", t.named, value.s, 0, <<>>), NoErr)
         ELSE AssignResult(old, typeMismatchError("string", value))
    ELSE IF t.kind = "int64"
    THEN IF value.kind = "int64" /\ ~value.named
         THEN AssignResult(GoValue("int64", "", t.named, "", value.i, <<>>), NoErr)
         ELSE AssignResult(old, typeMismatchError("int64", value))
    ELSE IF t.kind = "slice"
    THEN IF t.elem = "uint8"
         THEN IF value.kind = "slice" /\ value.elem = "uint8" /\ ~value.named
              THEN AssignResult(GoValue("slice", "uint8", t.named, "", 0, value.b), NoErr)
              ELSE AssignResult(old, typeMismatchError("[]byte", value))
         ELSE AssignResult(old,
                  Error("unsupported slice element type", "", <<>>, "", "", TypeString(t)))
    ELSE AssignResult(old, Error("unsupported field type", "", <<>>, "", "", t.kind))

\* the json tag with modifiers like ,omitempty removed
StripModifier(jsonTag) ==
    LET idx == StringsIndex(jsonTag, ",")
    IN  IF idx # -1 THEN SubSeq(jsonTag, 1, idx) ELSE jsonTag

\* fieldMap that also takes the fields without json tag, under the name ""
RECURSIVE BuildFieldMapUntagged(_, _, _)
BuildFieldMapUntagged(T, i, m) ==
    IF i > Len(T) THEN m
    ELSE IF ~T[i].exported THEN BuildFieldMapUntagged(T, i + 1, m)
    ELSE LET tag == StripModifier(T[i].json)
         IN  BuildFieldMapUntagged(T, i + 1,
                 [k \in DOMAIN m \cup {tag} |-> IF k = tag THEN i ELSE m[k]])

\* fieldMap: json tag -> index of the field, built in declaration order
RECURSIVE BuildFieldMap(_, _, _)
BuildFieldMap(T, i, m) ==
    IF i > Len(T) THEN m
    ELSE IF ~T[i].exported THEN BuildFieldMap(T, i + 1, m)
    ELSE IF T[i].json = <<>> THEN BuildFieldMap(T, i + 1, m)
    ELSE LET tag == StripModifier(T[i].json)
         IN  BuildFieldMap(T, i + 1,
                 [k \in DOMAIN m \cup {tag} |-> IF k = tag THEN i ELSE m[k]])

fieldMap(T) == BuildFieldMap(T, 1, <<>>)

\* every error wrapped as the error of a column
WrapAsColumn(origin, key, err) == [err EXCEPT !.origin = "column", !.key = key]

\* fmt.Errorf("primary key %q: %w") and fmt.Errorf("column %q: %w")
Wrap(origin, key, err) == [err EXCEPT !.origin = origin, !.key = key]

ParseResultResult(rec, err) == [rec |-> rec, err |-> err]

\* the loop over pairs ending at the first pair no field matches
RECURSIVE AssignPairsStopAtUnknown(_, _, _, _, _)
AssignPairsStopAtUnknown(T, rec, pairs, i, origin) ==
    IF i > Len(pairs) THEN ParseResultResult(rec, NoErr)
    ELSE IF pairs[i].Key \in DOMAIN fieldMap(T)
    THEN LET f == fieldMap(T)[pairs[i].Key]
             res == assignToPointerField(T[f].typ, rec[f], pairs[i].Value)
         IN  IF res.err # NoErr
             THEN ParseResultResult(rec, Wrap(origin, pairs[i].Key, res.err))
             ELSE AssignPairsStopAtUnknown(T, [rec EXCEPT ![f] = res.val], pairs,
                                           i + 1, origin)
    ELSE ParseResultResult(rec, NoErr)

\* the loop over pairs going on after a pair failed, returning the first
\* error at the end
RECURSIVE AssignPairsKeepGoing(_, _, _, _, _)
AssignPairsKeepGoing(T, rec, pairs, i, origin) ==
    IF i > Len(pairs) THEN ParseResultResult(rec, NoErr)
    ELSE IF pairs[i].Key \in DOMAIN fieldMap(T)
    THEN LET f == fieldMap(T)[pairs[i].Key]
             res == assignToPointerField(T[f].typ, rec[f], pairs[i].Value)
         IN  IF res.err # NoErr
             THEN ParseResultResult(
                      AssignPairsKeepGoing(T, rec, pairs, i + 1, origin).rec,
                      Wrap(origin, pairs[i].Key, res.err))
             ELSE AssignPairsKeepGoing(T, [rec EXCEPT ![f] = res.val], pairs,
                                       i + 1, origin)
    ELSE AssignPairsKeepGoing(T, rec, pairs, i + 1, origin)

\* one of the two loops over pairs, from pair i on
RECURSIVE AssignPairs(_, _, _, _, _)
AssignPairs(T, rec, pairs, i, origin) ==
    IF i > Len(pairs) THEN ParseResultResult(rec, NoErr)
    ELSE IF pairs[i].Key \in DOMAIN fieldMap(T)
    THEN LET f == fieldMap(T)[pairs[i].Key]
             res == assignToPointerField(T[f].typ, rec[f], pairs[i].Value)
         IN  IF res.err # NoErr
             THEN ParseResultResult(rec, Wrap(origin, pairs[i].Key, res.err))
             ELSE AssignPairs(T, [rec EXCEPT ![f] = res.val], pairs, i + 1, origin)
    ELSE AssignPairs(T, rec, pairs, i + 1, origin)

\* ParseResult restoring the record when a pair fails
ParseResultRollback(a, T, rec, pks, cols) ==
    IF ValueKind(a) # "ptr" \/ IsNil(a)
    THEN ParseResultResult(rec,
             Error("parseResult: obj must be a non-nil pointer to struct", "", <<>>, "", "", ""))
    ELSE IF ElemKind(a) # "struct"
    THEN ParseResultResult(rec,
             Error("parseResult: obj must be a pointer to struct", "", <<>>, "", "", ""))
    ELSE LET afterPks == AssignPairs(T, rec, pks, 1, "primary key")
             afterCols == AssignPairs(T, afterPks.rec, cols, 1, "column")
         IN  IF afterPks.err # NoErr THEN ParseResultResult(rec, afterPks.err)
             ELSE IF afterCols.err # NoErr THEN ParseResultResult(rec, afterCols.err)
             ELSE afterCols

\* ParseResult assigning the columns before the primary keys
ParseResultColsFirst(a, T, rec, pks, cols) ==
    IF ValueKind(a) # "ptr" \/ IsNil(a)
    THEN ParseResultResult(rec,
             Error("parseResult: obj must be a non-nil pointer to struct", "", <<>>, "", "", ""))
    ELSE IF ElemKind(a) # "struct"
    THEN ParseResultResult(rec,
             Error("parseResult: obj must be a pointer to struct", "", <<>>, "", "", ""))
    ELSE LET afterCols == AssignPairs(T, rec, cols, 1, "column")
         IN  IF afterCols.err # NoErr THEN afterCols
             ELSE AssignPairs(T, afterCols.rec, pks, 1, "primary key")

\* ParseResult filling a fresh record: fields no pair names end up unset
ParseResultFromZero(a, T, rec, pks, cols) ==
    IF ValueKind(a) # "ptr" \/ IsNil(a)
    THEN ParseResultResult(rec,
             Error("parseResult: obj must be a non-nil pointer to struct", "", <<>>, "", "", ""))
    ELSE IF ElemKind(a) # "struct"
    THEN ParseResultResult(rec,
             Error("parseResult: obj must be a pointer to struct", "", <<>>, "", "", ""))
    ELSE LET afterPks == AssignPairs(T, Zero(T), pks, 1, "primary key")
         IN  IF afterPks.err # NoErr THEN afterPks
             ELSE AssignPairs(T, afterPks.rec, cols, 1, "column")

\* ParseResult(ctx, obj, pks, cols): the fields of the record afterwards
\* and the error returned
ParseResult(a, T, rec, pks, cols) ==
    IF ValueKind(a) # "ptr" \/ IsNil(a)
    THEN ParseResultResult(rec,
             Error("parseResult: obj must be a non-nil pointer to struct", "", <<>>, "", "", ""))
    ELSE IF ElemKind(a) # "struct"
    THEN ParseResultResult(rec,
             Error("parseResult: obj must be a pointer to struct", "", <<>>, "", "", ""))
    ELSE LET afterPks == AssignPairs(T, rec, pks, 1, "primary key")
         IN  IF afterPks.err # NoErr THEN afterPks
             ELSE AssignPairs(T, afterPks.rec, cols, 1, "column")

----------------------------------------------------------------------------
\* Rows read from the store

\* the values the store returns
StoreValues == {StringV("a"), StringV("b"), Int64V(7), BytesV(<<9>>)}

\* the column names a row of the table of T may carry: the names the
\* fields are written and read under, and one no field has
StoreKeys(T) ==
    {T[i].json : i \in 1..Len(T)} \cup {StripModifier(T[i].json) : i \in 1..Len(T)}
        \cup {<<"x">>}

StorePairs(T) == {KeyValue(k, v) : k \in StoreKeys(T), v \in StoreValues}

RECURSIVE PairLists(_, _)
PairLists(T, n) ==
    IF n = 0 THEN {<<>>}
    ELSE {Append(l, p) : l \in PairLists(T, n - 1), p \in StorePairs(T)}

Pairs(pks, cols) == [pks |-> pks, cols |-> cols]

\* the rows of at most MaxPairs pairs: every list of pairs, cut into
\* primary keys and columns at every place
Responses(T) ==
    UNION {{Pairs(SubSeq(l, 1, k), SubSeq(l, k + 1, n)) :
                l \in PairLists(T, n), k \in 0..n} : n \in 0..MaxPairs}

----------------------------------------------------------------------------
\* Client and context parameters (client.go)

\* a *tablestore.TableStoreClient: nil, or the client made of four strings
Client(endPoint, instanceName, accessKeyId, accessKeySecret) ==
    [nil |-> FALSE, endPoint |-> endPoint, instanceName |-> instanceName,
     accessKeyId |-> accessKeyId, accessKeySecret |-> accessKeySecret]

NilClient ==
    [nil |-> TRUE, endPoint |-> "", instanceName |-> "", accessKeyId |-> "",
     accessKeySecret |-> ""]

\* a *OtsUtilsParams: nil, or a pointer, told from other pointers by id, to
\* a struct with the fields Client and TableName
OtsUtilsParams(id, c, tableName) ==
    [nil |-> FALSE, id |-> id, Client |-> c, TableName |-> tableName]

NilParams == [nil |-> TRUE, id |-> 0, Client |-> NilClient, TableName |-> ""]

\* the strings and params the callers of this model pass
EndPoints == {"", "e1", "e2"}
Secrets == {"", "k"}
TableNames == {"", "t1", "t2"}
ParamIds == {1, 2}

ParamsOf(c) ==
    {NilParams} \cup
    {OtsUtilsParams(id, cl, t) : id \in ParamIds, cl \in {NilClient, c}, t \in TableNames}

\* the outcome of a call that may panic
Outcome(val, panic) == [val |-> val, fault |-> IF panic THEN "panic" ELSE "none"]

\* NewClient(ctx, endPoint, instanceName, accessKeyId, accessKeySecret):
\* logger.Panic().Msg panics; tablestore.NewClient returns a client
NewClient(endPoint, instanceName, accessKeyId, accessKeySecret) ==
    IF endPoint = "" \/ instanceName = "" \/ accessKeyId = "" \/ accessKeySecret = ""
    THEN Outcome(NilClient, TRUE)
    ELSE Outcome(Client(endPoint, instanceName, accessKeyId, accessKeySecret), FALSE)

\* context.WithValue(c, otsUtilsParamsCtxKey{}, p)
WithValue(c, p) == Append(c, p)

\* the value nearest to the root of the context
CtxValueOutermost(c) == IF c = <<>> THEN NilParams ELSE c[1]

\* c.Value(otsUtilsParamsCtxKey{}): the value attached last, the nil
\* interface when none is attached
CtxValue(c) == IF c = <<>> THEN NilParams ELSE c[Len(c)]

\* WithContext without the test of the client
WithContextAnyClient(p, c) ==
    IF p.nil THEN Outcome(c, TRUE)
    ELSE IF p.TableName = "" THEN Outcome(c, TRUE)
    ELSE Outcome(WithValue(c, p), FALSE)

\* p.WithContext(c): the context returned, or a panic; reading TableName
\* of a nil p panics too
WithContext(p, c) ==
    IF p.nil THEN Outcome(c, TRUE)
    ELSE IF p.TableName = "" THEN Outcome(c, TRUE)
    ELSE IF p.Client.nil THEN Outcome(c, TRUE)
    ELSE Outcome(WithValue(c, p), FALSE)

\* OtsUtilsParamsFromCtx returning nil params when none are attached
OtsUtilsParamsFromCtxOrNil(c) ==
    IF c = <<>> THEN Outcome(NilParams, FALSE) ELSE Outcome(CtxValue(c), FALSE)

\* OtsUtilsParamsFromCtx(c): the type assertion panics on the nil interface
OtsUtilsParamsFromCtx(c) ==
    IF c = <<>> THEN Outcome(NilParams, TRUE) ELSE Outcome(CtxValue(c), FALSE)

\* no client made, nothing attached to the context, no call made
CtxIdle ==
    /\ ctx = <<>>
    /\ client = NilClient
    /\ creds = <<"", "", "", "">>
    /\ recv = NilParams
    /\ ret = NilParams
    /\ fault = "none"

\* the variables of the calls to ParseObj and ParseResult but op
parseVars == <<typ, r, r2, out, resp, given, perr, arg, calls>>

\* client := NewClient(ctx, endPoint, instanceName, accessKeyId, accessKeySecret)
NewClientCall(endPoint, instanceName, accessKeyId, accessKeySecret) ==
    LET res == NewClient(endPoint, instanceName, accessKeyId, accessKeySecret)
    IN  /\ op' = "NewClient"
        /\ creds' = <<endPoint, instanceName, accessKeyId, accessKeySecret>>
        /\ fault' = res.fault
        /\ client' = IF res.fault = "panic" THEN client ELSE res.val
        /\ UNCHANGED <<ctx, recv, ret, parseVars, opsVars>>

\* ctx = p.WithContext(ctx)
WithContextCall(p) ==
    LET res == WithContext(p, ctx)
    IN  /\ Len(ctx) < MaxDepth
        /\ op' = "WithContext"
        /\ recv' = p
        /\ fault' = res.fault
        /\ ctx' = res.val
        /\ UNCHANGED <<client, creds, ret, parseVars, opsVars>>

\* OtsUtilsParamsFromCtx(ctx)
FromCtxCall ==
    LET res == OtsUtilsParamsFromCtx(ctx)
    IN  /\ op' = "OtsUtilsParamsFromCtx"
        /\ fault' = res.fault
        /\ ret' = res.val
        /\ UNCHANGED <<ctx, client, creds, recv, parseVars, opsVars>>

----------------------------------------------------------------------------
\* Operations (operations.go, executor.go, params.go)

\* tablestore.RowExistenceExpectation, and the nil pointer to one
Expectations == {"IGNORE", "EXPECT_EXIST", "EXPECT_NOT_EXIST"}
NilExpectation == "nil"

PutRowParams(e) == [RowExistenceExpectation |-> e]

\* UpdatedColumns is given as the pairs in the order range yields them
UpdateRowParams(e, deleted, updated) ==
    [RowExistenceExpectation |-> e, DeletedColumns |-> deleted,
     UpdatedColumns |-> updated]

\* a value of type any: its dynamic type and the value
AnyValue(dyn, val) == [dyn |-> dyn, val |-> val]
NilAny == AnyValue("nil", "nil")

\* the type of a params value
TypeOf(p) ==
    IF "DeletedColumns" \in DOMAIN p THEN "UpdateRowParams" ELSE "PutRowParams"

\* toAnySlice returning the slice without its last element
toAnySliceShort(slice) ==
    [i \in 1..(Len(slice) - 1) |-> AnyValue(TypeOf(slice[i]), slice[i])]

\* the loop of toAnySlice from index i on: result[i] = v
RECURSIVE toAnySliceFrom(_, _, _)
toAnySliceFrom(slice, result, i) ==
    IF i > Len(slice) THEN result
    ELSE toAnySliceFrom(slice, [result EXCEPT ![i] = AnyValue(TypeOf(slice[i]), slice[i])],
                        i + 1)

\* toAnySlice(slice): result := make([]any, len(slice)), then the loop
toAnySlice(slice) ==
    toAnySliceFrom(slice, [i \in 1..Len(slice) |-> NilAny], 1)

\* a request: the row change of PutRow and UpdateRow, the criteria of GetRow
Request(kind, tableName, condition, pk, changes) ==
    [kind |-> kind, TableName |-> tableName, Condition |-> condition,
     PrimaryKey |-> pk, Changes |-> changes]

NoReq == Request("none", "", "", <<>>, <<>>)

\* AddColumn and PutColumn, DeleteColumn
Change(type, name, value) == [type |-> type, name |-> name, value |-> value]

Puts(pairs) == [i \in 1..Len(pairs) |-> Change("put", pairs[i].Key, pairs[i].Value)]
Deletes(names) == [i \in 1..Len(names) |-> Change("delete", names[i], Nil)]

BuildResult(rq, err) == [req |-> rq, err |-> err]

\* the condition taken from the params passed last
PutRowExpectationOfLast(params) ==
    IF /\ Len(params) > 0
       /\ params[Len(params)].dyn = "PutRowParams"
       /\ params[Len(params)].val.RowExistenceExpectation # NilExpectation
    THEN params[Len(params)].val.RowExistenceExpectation
    ELSE "EXPECT_NOT_EXIST"

\* rowExistenceExpectation of PutRow's buildReq
PutRowExpectation(params) ==
    IF /\ Len(params) > 0
       /\ params[1].dyn = "PutRowParams"
       /\ params[1].val.RowExistenceExpectation # NilExpectation
    THEN params[1].val.RowExistenceExpectation
    ELSE "EXPECT_NOT_EXIST"

\* rowExistenceExpectation of UpdateRow's buildReq
UpdateRowExpectation(params) ==
    IF /\ Len(params) > 0
       /\ params[1].dyn = "UpdateRowParams"
       /\ params[1].val.RowExistenceExpectation # NilExpectation
    THEN params[1].val.RowExistenceExpectation
    ELSE "IGNORE"

\* every order of the elements of S
RECURSIVE Orders(_)
Orders(S) ==
    IF S = {} THEN {<<>>}
    ELSE UNION {{<<x>> \o p : p \in Orders(S \ {x})} : x \in S}

\* "for k, v := range pks" takes pks as a map from column name to value:
\* the pairs as range yields them, p being the order it picks
Ranged(pairs, p) == [i \in 1..Len(pairs) |-> pairs[p[i]]]

RangeOrder(pks, cols) == [pks |-> pks, cols |-> cols]

\* the orders range can pick in buildReq for the record rec; GetRow ranges
\* over pks only
RangeOrders(operation, a, T, rec) ==
    LET po == ParseObj(a, T, rec)
    IN  IF po.err # NoErr THEN {RangeOrder(<<>>, <<>>)}
        ELSE {RangeOrder(p, q) :
                  p \in Orders(1..Len(po.pks.e)),
                  q \in IF operation = "GetRow" THEN {<<>>}
                        ELSE Orders(1..Len(po.cols.e))}

\* buildReq of PutRow
PutRowBuildReq(otsParams, a, T, rec, params, rng) ==
    LET po == ParseObj(a, T, rec)
    IN  IF po.err # NoErr THEN BuildResult(NoReq, po.err)
        ELSE BuildResult(Request("PutRow", otsParams.TableName,
                                 PutRowExpectation(params),
                                 Ranged(po.pks.e, rng.pks),
                                 Puts(Ranged(po.cols.e, rng.cols))), NoErr)

\* buildReq of UpdateRow putting the columns before deleting the deleted ones
UpdateRowBuildReqPutsFirst(otsParams, a, T, rec, params, rng) ==
    LET isParams == Len(params) > 0 /\ params[1].dyn = "UpdateRowParams"
        deletedColumns == IF isParams THEN params[1].val.DeletedColumns ELSE <<>>
        updatedColumns == IF isParams THEN params[1].val.UpdatedColumns ELSE <<>>
        po == ParseObj(a, T, rec)
    IN  IF po.err # NoErr THEN BuildResult(NoReq, po.err)
        ELSE BuildResult(Request("UpdateRow", otsParams.TableName,
                                 UpdateRowExpectation(params),
                                 Ranged(po.pks.e, rng.pks),
                                 Puts(updatedColumns)
                                     \o Puts(Ranged(po.cols.e, rng.cols))
                                     \o Deletes(deletedColumns)), NoErr)

\* buildReq of UpdateRow
UpdateRowBuildReq(otsParams, a, T, rec, params, rng) ==
    LET isParams == Len(params) > 0 /\ params[1].dyn = "UpdateRowParams"
        deletedColumns == IF isParams THEN params[1].val.DeletedColumns ELSE <<>>
        updatedColumns == IF isParams THEN params[1].val.UpdatedColumns ELSE <<>>
        po == ParseObj(a, T, rec)
    IN  IF po.err # NoErr THEN BuildResult(NoReq, po.err)
        ELSE BuildResult(Request("UpdateRow", otsParams.TableName,
                                 UpdateRowExpectation(params),
                                 Ranged(po.pks.e, rng.pks),
                                 Deletes(deletedColumns) \o Puts(updatedColumns)
                                     \o Puts(Ranged(po.cols.e, rng.cols))), NoErr)

\* buildReq of GetRow asking with the attribute pairs of the record as well
GetRowBuildReqWithColumns(otsParams, a, T, rec, params, rng) ==
    LET po == ParseObj(a, T, rec)
    IN  IF po.err # NoErr THEN BuildResult(NoReq, po.err)
        ELSE BuildResult(Request("GetRow", otsParams.TableName, "",
                                 Ranged(po.pks.e, rng.pks), Puts(po.cols.e)), NoErr)

\* buildReq of GetRow
GetRowBuildReq(otsParams, a, T, rec, params, rng) ==
    LET po == ParseObj(a, T, rec)
    IN  IF po.err # NoErr THEN BuildResult(NoReq, po.err)
        ELSE BuildResult(Request("GetRow", otsParams.TableName, "",
                                 Ranged(po.pks.e, rng.pks), <<>>), NoErr)

\* buildReq reading a record passed by value as if a pointer to it were passed
BuildRequestOfValue(operation, otsParams, a, T, rec, params, rng) ==
    IF operation = "PutRow"
    THEN PutRowBuildReq(otsParams, "ptr", T, rec, params,
                        CHOOSE o \in RangeOrders(operation, "ptr", T, rec) : TRUE)
    ELSE IF operation = "UpdateRow"
    THEN UpdateRowBuildReq(otsParams, "ptr", T, rec, params,
                           CHOOSE o \in RangeOrders(operation, "ptr", T, rec) : TRUE)
    ELSE GetRowBuildReq(otsParams, "ptr", T, rec, params,
                        CHOOSE o \in RangeOrders(operation, "ptr", T, rec) : TRUE)

\* the buildRequest closure executeOTSOperation is given
BuildRequest(operation, otsParams, a, T, rec, params, rng) ==
    IF operation = "PutRow" THEN PutRowBuildReq(otsParams, a, T, rec, params, rng)
    ELSE IF operation = "UpdateRow"
    THEN UpdateRowBuildReq(otsParams, a, T, rec, params, rng)
    ELSE GetRowBuildReq(otsParams, a, T, rec, params, rng)

\* a row of the table: column name -> value
Row(f) == IF DOMAIN f = {} THEN <<>> ELSE f

\* the row after the changes of a request, applied in their order
RECURSIVE ApplyChanges(_, _, _)
ApplyChanges(row, changes, i) ==
    IF i > Len(changes) THEN Row(row)
    ELSE LET c == changes[i]
         IN  IF c.type = "put"
             THEN ApplyChanges([k \in DOMAIN row \cup {c.name} |->
                                   IF k = c.name THEN c.value ELSE row[k]],
                               changes, i + 1)
             ELSE ApplyChanges([k \in DOMAIN row \ {c.name} |-> row[k]],
                               changes, i + 1)

\* the columns of a row as the store lists them, by ascending name
RECURSIVE ColumnsOf(_, _)
ColumnsOf(row, names) ==
    IF names = {} THEN <<>>
    ELSE LET n == CHOOSE x \in names : \A y \in names \ {x} : StrLess(x, y)
         IN  <<KeyValue(n, row[n])>> \o ColumnsOf(row, names \ {n})

\* a GetRowResponse; PutRow and UpdateRow responses carry nothing read here
Response(pk, columns) == [PrimaryKey |-> pk, Columns |-> columns]

ExecuteResult(st, rsp, err) == [store |-> st, resp |-> rsp, err |-> err]

\* the execute closure: client.PutRow, client.UpdateRow or client.GetRow on
\* a store that is a map from primary key to columns and checks the row
\* existence condition; down is a remote call that fails
Execute(st, rq, down) ==
    LET pk == rq.PrimaryKey
        exists == pk \in DOMAIN st
        base == IF rq.kind = "UpdateRow" /\ exists THEN st[pk] ELSE <<>>
    IN  IF down
        THEN ExecuteResult(st, Response(<<>>, <<>>),
                           Error("remote", "", <<>>, "", "", ""))
        ELSE IF \/ rq.Condition = "EXPECT_EXIST" /\ ~exists
                \/ rq.Condition = "EXPECT_NOT_EXIST" /\ exists
        THEN ExecuteResult(st, Response(<<>>, <<>>),
                           Error("OTSConditionCheckFail", "", <<>>, "", "", ""))
        ELSE IF rq.kind = "GetRow"
        THEN ExecuteResult(st,
                 IF exists THEN Response(pk, ColumnsOf(st[pk], DOMAIN st[pk]))
                 ELSE Response(<<>>, <<>>),
                 NoErr)
        ELSE ExecuteResult(
                 [k \in DOMAIN st \cup {pk} |->
                     IF k = pk THEN ApplyChanges(base, rq.Changes, 1) ELSE st[k]],
                 Response(<<>>, <<>>), NoErr)

\* the pairs of a map built from a list of pairs: each name once, with the
\* value stored last
RECURSIVE KeyedByName(_, _)
KeyedByName(pairs, i) ==
    IF i > Len(pairs) THEN <<>>
    ELSE IF \E j \in (i + 1)..Len(pairs) : pairs[j].Key = pairs[i].Key
    THEN KeyedByName(pairs, i + 1)
    ELSE <<pairs[i]>> \o KeyedByName(pairs, i + 1)

\* handleResp of GetRow
handleResp(a, T, rec, rsp) ==
    ParseResult(a, T, rec, KeyedByName(rsp.PrimaryKey, 1), KeyedByName(rsp.Columns, 1))

OpResult(flt, stp, rq, st, rec, err) ==
    [fault |-> flt, steps |-> stp, req |-> rq, store |-> st, rec |-> rec, err |-> err]

\* executeOTSOperation handing the response to the handler although the
\* execute step failed
executeOTSOperationHandlingFailure(c, operation, a, T, rec, params, st, down, rng) ==
    LET otsParams == OtsUtilsParamsFromCtx(c)
        built == BuildRequest(operation, otsParams.val, a, T, rec, params, rng)
        executed == Execute(st, built.req, down)
        handled == handleResp(a, T, rec, executed.resp)
    IN  IF otsParams.fault = "panic"
        THEN OpResult("panic", <<>>, NoReq, st, rec, NoErr)
        ELSE IF built.err # NoErr
        THEN OpResult("none", <<"build">>, NoReq, st, rec, built.err)
        ELSE IF operation = "GetRow"
        THEN OpResult("none", <<"build", "execute", "handle">>, built.req,
                      executed.store, handled.rec, handled.err)
        ELSE OpResult("none", <<"build", "execute">>, built.req, executed.store,
                      rec, executed.err)

\* executeOTSOperation(ctx, operation, obj, buildRequest, execute,
\* handleResponse, params...); only GetRow has a response handler
executeOTSOperation(c, operation, a, T, rec, params, st, down, rng) ==
    LET otsParams == OtsUtilsParamsFromCtx(c)
        built == BuildRequest(operation, otsParams.val, a, T, rec, params, rng)
        executed == Execute(st, built.req, down)
        handled == handleResp(a, T, rec, executed.resp)
    IN  IF otsParams.fault = "panic"
        THEN OpResult("panic", <<>>, NoReq, st, rec, NoErr)
        ELSE IF built.err # NoErr
        THEN OpResult("none", <<"build">>, NoReq, st, rec, built.err)
        ELSE IF executed.err # NoErr
        THEN OpResult("none", <<"build", "execute">>, built.req, st, rec, executed.err)
        ELSE IF operation = "GetRow"
        THEN OpResult("none", <<"build", "execute", "handle">>, built.req,
                      executed.store, handled.rec, handled.err)
        ELSE OpResult("none", <<"build", "execute">>, built.req, executed.store,
                      rec, NoErr)

\* an empty table and no operation called
OpsIdle ==
    /\ store = <<>>
    /\ prm = <<>>
    /\ req = NoReq
    /\ oerr = NoErr
    /\ steps = <<>>
    /\ anys = <<>>
    /\ outage = FALSE

\* the record types, records and params the operations are called with:
\* the key field set, one value per attribute field
OpsTypes == {MyRow, OmitRow}

OpsRecords(T) ==
    {rec \in Records(T) :
        /\ rec[1] # Nil
        /\ \A i \in 1..Len(T) : rec[i].i >= 0
        /\ \A i \in 2..Len(T) : rec[i].s # "b"}

OpsArgs == {"ptr", "struct"}

\* a value of the kind a field of declared type t holds
SampleValue(t) == IF t.kind = "int64" THEN Int64V(7) ELSE StringV("b")

OpsPutParams == {<<>>, <<PutRowParams("IGNORE")>>}

OpsUpdateParams(T) ==
    {<<>>,
     <<UpdateRowParams(NilExpectation, <<>>, <<>>)>>,
     <<UpdateRowParams("EXPECT_EXIST", <<StripModifier(T[2].json)>>,
                       <<KeyValue(StripModifier(T[Len(T)].json),
                                  SampleValue(T[Len(T)].typ))>>)>>}

\* the params attached to the context of the operations
OpsParams == OtsUtilsParams(1, Client("e1", "k", "k", "k"), "t1")

\* an operation called on the caller's record rec, passed as a; rng is the
\* order range picks in buildReq
OperationCall(operation, a, rec, params, down, rng) ==
    \E res \in {executeOTSOperation(ctx, operation, a, typ, rec, toAnySlice(params),
                                    store, down, rng)} :
        /\ op' = operation
        /\ anys' = toAnySlice(params)
        /\ arg' = a
        /\ r' = rec
        /\ r2' = res.rec
        /\ prm' = params
        /\ req' = res.req
        /\ store' = res.store
        /\ oerr' = res.err
        /\ steps' = res.steps
        /\ fault' = res.fault
        /\ outage' = down
        /\ UNCHANGED <<typ, out, resp, given, perr, calls, ctx, client, creds, recv, ret>>

\* PutRow(ctx, obj, params...)
PutRowCall(a, rec, params, down, rng) ==
    OperationCall("PutRow", a, rec, params, down, rng)

\* UpdateRow(ctx, obj, params...)
UpdateRowCall(a, rec, params, down, rng) ==
    OperationCall("UpdateRow", a, rec, params, down, rng)

\* GetRow(ctx, obj)
GetRowCall(a, rec, down, rng) == OperationCall("GetRow", a, rec, <<>>, down, rng)

\* every list of at most MaxParams params
RECURSIVE ListsOf(_, _)
ListsOf(S, n) ==
    IF n = 0 THEN {<<>>}
    ELSE ListsOf(S, n - 1) \cup
         {Append(l, x) : l \in {m \in ListsOf(S, n - 1) : Len(m) = n - 1}, x \in S}

PutParamLists ==
    ListsOf({PutRowParams(e) : e \in Expectations \cup {NilExpectation}}, MaxParams)

UpdateParamLists ==
    ListsOf({UpdateRowParams(e, d, u) :
                 e \in Expectations \cup {NilExpectation},
                 d \in {<<>>, <<<<"c", "o", "l", "1">>>>},
                 u \in {<<>>, <<KeyValue(<<"c", "o", "l", "2">>, Int64V(7))>>}},
            MaxParams)

\* the record types buildReq is applied to: those of the operations and one
\* with three key fields
ReqTypes == OpsTypes \cup {<<OrdA, OrdB, OrdC>>}

\* buildReq of an operation applied to the record r and the params prm
BuildReqCall(operation) ==
    \E rng \in RangeOrders(operation, arg, typ, r) :
    LET built == BuildRequest(operation, CtxValue(ctx), arg, typ, r, toAnySlice(prm),
                              rng)
    IN  /\ anys' = toAnySlice(prm)
        /\ prm \in (IF operation = "PutRow" THEN PutParamLists
                    ELSE IF operation = "UpdateRow" THEN UpdateParamLists
                    ELSE {<<>>})
        /\ op' = operation
        /\ req' = built.req
        /\ oerr' = built.err
        /\ steps' = <<"build">>
        /\ UNCHANGED <<typ, r, r2, out, resp, given, perr, arg, calls, ctxVars, store, prm,
                       outage>>

----------------------------------------------------------------------------
\* The calls

\* ParseObj taking the values out of the record it reads
ParseObjRecordConsumed(a, T, rec) ==
    IF ValueKind(a) = "ptr" /\ ElemKind(a) = "struct" THEN Zero(T) ELSE rec

\* ParseObj clearing the fields of a record it rejects
ParseObjRecordReset(a, T, rec) ==
    IF ParseObj(a, T, rec).err # NoErr THEN Zero(T) ELSE rec

\* the record obj points to after ParseObj: ParseObj only reads it
ParseObjRecord(a, T, rec) == rec

\* ParseObj(ctx, obj) on the record r, passed as a
ParseObjCall(a) ==
    /\ calls < MaxCalls
    /\ out' = ParseObj(a, typ, r)
    /\ r' = ParseObjRecord(a, typ, r)
    /\ op' = "ParseObj"
    /\ arg' = a
    /\ calls' = calls + 1
    /\ UNCHANGED <<typ, r2, resp, given, perr, ctxVars, opsVars>>

\* ParseResult(ctx, obj, pks, cols) on the record r2, passed as a
ParseResultCall(a, pks, cols) ==
    LET res == ParseResult(a, typ, r2, pks, cols)
    IN  /\ r2' = res.rec
        /\ perr' = res.err
        /\ given' = Pairs(pks, cols)
        /\ op' = "ParseResult"
        /\ arg' = a
        /\ UNCHANGED <<typ, r, out, resp, calls, ctxVars, opsVars>>

\* ParseResult with the pks and cols a successful ParseObj returned
MaterializeExtracted(a) ==
    /\ op # "none"
    /\ out.err = NoErr
    /\ ParseResultCall(a, out.pks.e, out.cols.e)

\* ParseResult with the primary keys and columns of a row read from the
\* store, as GetRow's handleResp calls it
MaterializeResponse(a) ==
    ParseResultCall(a, resp.pks, resp.cols)

NoOut == ParseObjResult(NilSlice, NilSlice, NoErr)

Init ==
    /\ typ \in RecordTypes
    /\ r \in Records(typ)
    /\ r2 = Zero(typ)
    /\ out = NoOut
    /\ resp = Pairs(<<>>, <<>>)
    /\ given = Pairs(<<>>, <<>>)
    /\ perr = NoErr
    /\ op = "none"
    /\ arg = "none"
    /\ calls = 0
    /\ CtxIdle
    /\ OpsIdle

Next ==
    \/ \E a \in ArgKinds : ParseObjCall(a)
    \/ \E a \in ArgKinds : MaterializeExtracted(a)

Spec == Init /\ [][Next]_vars

\* a row read from the store is materialized into a zero record
InitStore ==
    /\ typ \in StoreTypes
    /\ r = Zero(typ)
    /\ r2 = Zero(typ)
    /\ out = NoOut
    /\ resp \in Responses(typ)
    /\ given = Pairs(<<>>, <<>>)
    /\ perr = NoErr
    /\ op = "none"
    /\ arg = "none"
    /\ calls = 0
    /\ CtxIdle
    /\ OpsIdle

NextStore == \E a \in ArgKinds : MaterializeResponse(a)

SpecStore == InitStore /\ [][NextStore]_vars

\* no client made yet and an empty context
InitCtx ==
    /\ typ = MyRow
    /\ r = Zero(typ)
    /\ r2 = Zero(typ)
    /\ out = ParseObjResult(NilSlice, NilSlice, NoErr)
    /\ resp = Pairs(<<>>, <<>>)
    /\ given = Pairs(<<>>, <<>>)
    /\ perr = NoErr
    /\ op = "none"
    /\ arg = "none"
    /\ calls = 0
    /\ CtxIdle
    /\ OpsIdle

NextCtx ==
    \/ \E e \in EndPoints, i, k, s \in Secrets : NewClientCall(e, i, k, s)
    \/ \E p \in ParamsOf(client) : WithContextCall(p)
    \/ FromCtxCall

SpecCtx == InitCtx /\ [][NextCtx]_vars

\* the operations on an empty table, with params attached to the context or
\* with none
InitOps ==
    /\ typ \in OpsTypes
    /\ r = Zero(typ)
    /\ r2 = Zero(typ)
    /\ out = NoOut
    /\ resp = Pairs(<<>>, <<>>)
    /\ given = Pairs(<<>>, <<>>)
    /\ perr = NoErr
    /\ op = "none"
    /\ arg = "none"
    /\ calls = 0
    /\ ctx \in {<<>>, <<OpsParams>>}
    /\ client = OpsParams.Client
    /\ creds = <<"e1", "k", "k", "k">>
    /\ recv = NilParams
    /\ ret = NilParams
    /\ fault = "none"
    /\ OpsIdle

NextOps ==
    \/ \E a \in OpsArgs, rec \in OpsRecords(typ) :
          \E rng \in RangeOrders("PutRow", a, typ, rec) :
             \E params \in OpsPutParams, down \in BOOLEAN :
                PutRowCall(a, rec, params, down, rng)
    \/ \E a \in OpsArgs, rec \in OpsRecords(typ) :
          \E rng \in RangeOrders("UpdateRow", a, typ, rec) :
             \E params \in OpsUpdateParams(typ), down \in BOOLEAN :
                UpdateRowCall(a, rec, params, down, rng)
    \/ \E a \in OpsArgs, rec \in OpsRecords(typ) :
          \E rng \in RangeOrders("GetRow", a, typ, rec) :
             \E down \in BOOLEAN : GetRowCall(a, rec, down, rng)

SpecOps == InitOps /\ [][NextOps]_vars

\* buildReq given a record and a list of params
InitReq ==
    /\ typ \in ReqTypes
    /\ r \in OpsRecords(typ)
    /\ r2 = Zero(typ)
    /\ out = NoOut
    /\ resp = Pairs(<<>>, <<>>)
    /\ given = Pairs(<<>>, <<>>)
    /\ perr = NoErr
    /\ op = "none"
    /\ arg \in OpsArgs
    /\ calls = 0
    /\ ctx = <<OpsParams>>
    /\ client = OpsParams.Client
    /\ creds = <<"e1", "k", "k", "k">>
    /\ recv = NilParams
    /\ ret = NilParams
    /\ fault = "none"
    /\ store = <<>>
    /\ prm \in PutParamLists \cup UpdateParamLists
    /\ req = NoReq
    /\ oerr = NoErr
    /\ steps = <<>>
    /\ anys = <<>>
    /\ outage = FALSE

NextReq ==
    \/ BuildReqCall("PutRow")
    \/ BuildReqCall("UpdateRow")
    \/ BuildReqCall("GetRow")

SpecReq == InitReq /\ [][NextReq]_vars

\* a row read from the store is materialized into a record that has fields
\* set already
FillTypes == {MyRow}

FillRecords(T) ==
    {rec \in Records(T) : \A i \in 1..Len(T) : rec[i].s # "b" /\ rec[i].i >= 0}

InitFill ==
    /\ typ \in FillTypes
    /\ r = Zero(typ)
    /\ r2 \in FillRecords(typ)
    /\ out = NoOut
    /\ resp \in Responses(typ)
    /\ given = Pairs(<<>>, <<>>)
    /\ perr = NoErr
    /\ op = "none"
    /\ arg = "none"
    /\ calls = 0
    /\ CtxIdle
    /\ OpsIdle

NextFill == \E a \in ArgKinds : MaterializeResponse(a)

SpecFill == InitFill /\ [][NextFill]_vars

----------------------------------------------------------------------------
\* Notions the properties are stated in

\* a field's declared kind is optional string, 64-bit integer or bytes
Supported(t) ==
    /\ t.ptr
    /\ \/ t.kind = "string"
       \/ t.kind = "int64"
       \/ t.kind = "slice" /\ t.elem = "uint8"

\* a valid record type: every field is exported, of type *string, *int64
\* or *[]byte, and carries a column name no other field carries
ValidRecordType(T) ==
    /\ \A i \in 1..Len(T) :
          /\ Supported(T[i].typ)
          /\ ~T[i].typ.named
          /\ T[i].exported
          /\ T[i].json # <<>>
    /\ \A i, j \in 1..Len(T) : i # j => T[i].json # T[j].json

AllSet(rec) == \A i \in 1..Len(rec) : rec[i] # Nil

IsPk(f) == f.pk # <<>>

SetPks(T, rec) == {i \in 1..Len(T) : IsPk(T[i]) /\ rec[i] # Nil}
SetCols(T, rec) == {i \in 1..Len(T) : ~IsPk(T[i]) /\ rec[i] # Nil}

KeysOf(pairs) == [i \in 1..Len(pairs) |-> pairs[i].Key]

\* the last call was a ParseObj of a pointer to the record r
Extracted == op = "ParseObj" /\ IsRecordPtr(arg)

\* the ordinal of the key field emitted under the column name key
OrdinalOf(T, key) == T[CHOOSE i \in 1..Len(T) : IsPk(T[i]) /\ T[i].json = key].pk

----------------------------------------------------------------------------
\* C1. Round trip: for a record r of a valid record type with all fields
\* set, ParseResult on a zero-valued record r2 of the same type, given the
\* pks and cols ParseObj returned for r, succeeds and leaves r2 equal to r.
RoundTripLaw ==
    [][(/\ ValidRecordType(typ)
        /\ AllSet(r)
        /\ r2 = Zero(typ)
        /\ op # "none"
        /\ out.err = NoErr
        /\ op' = "ParseResult"
        /\ IsRecordPtr(arg')
        /\ given' = Pairs(out.pks.e, out.cols.e))
       => (perr' = NoErr /\ r2' = r)]_vars

\* The law restricted to record types whose json tags carry no modifier
\* holds: ParseObj emits a field under its whole json tag and ParseResult
\* looks it up under the tag cut at the first comma.
RoundTripPlainTags ==
    [][(/\ ValidRecordType(typ)
        /\ \A i \in 1..Len(typ) : StringsIndex(typ[i].json, ",") = -1
        /\ AllSet(r)
        /\ r2 = Zero(typ)
        /\ op # "none"
        /\ out.err = NoErr
        /\ op' = "ParseResult"
        /\ IsRecordPtr(arg')
        /\ given' = Pairs(out.pks.e, out.cols.e))
       => (perr' = NoErr /\ r2' = r)]_vars

----------------------------------------------------------------------------
\* C2. ParseObj orders the primary-key tuple ascending by the ordinals
\* compared as raw strings: in every tuple no ordinal is less, as a string,
\* than the one before it, and with the three fields of ordinals "2", "10"
\* and "1" set, in any declaration order, the tuple lists the fields of
\* ordinals "1", "10", "2" in that order, each with its field's value.
OrdinalSortIsLexicographic ==
    (Extracted /\ out.err = NoErr /\ typ \in OrdRows \cup {TestRow, Obj}) =>
        LET pks == out.pks.e
        IN  /\ \A i \in 1..(Len(pks) - 1) :
                  ~StrLess(OrdinalOf(typ, pks[i + 1].Key), OrdinalOf(typ, pks[i].Key))
            /\ (typ \in OrdRows /\ AllSet(r)) =>
                  /\ [i \in 1..Len(pks) |-> OrdinalOf(typ, pks[i].Key)]
                         = << <<"1">>, <<"1", "0">>, <<"2">> >>
                  /\ \A i \in 1..Len(pks) : \E f \in 1..Len(typ) :
                         typ[f].json = pks[i].Key /\ pks[i].Value = r[f]

OrdinalSortWitness ==
    /\ Extracted
    /\ typ = <<OrdA, OrdB, OrdC>>
    /\ AllSet(r)
    /\ out.err = NoErr
    /\ KeysOf(out.pks.e) = << <<"c">>, <<"b">>, <<"a">> >>

----------------------------------------------------------------------------
\* C3. The column order of the primary-key tuple depends only on the record
\* type and on which key fields are set: ParseObj lists the same column
\* names in the same order for r as for the record that has the same key
\* fields set, each to a fixed value, so any two records with the same key
\* fields set get the same order, also when ordinals are equal (Obj).

\* the record with the key fields rec has set, each set to one fixed value
Canonical(T, rec) ==
    [i \in 1..Len(T) |->
        IF ~T[i].typ.ptr THEN BoolV(0)
        ELSE IF ~IsPk(T[i]) \/ rec[i] = Nil THEN Nil
        ELSE IF T[i].typ.kind = "string" THEN StringV("a")
        ELSE IF T[i].typ.kind = "int64" THEN Int64V(7)
        ELSE BytesV(<<>>)]

SameKeyOrderForSameKeyFields ==
    (Extracted /\ out.err = NoErr /\ \A i \in 1..Len(typ) : Supported(typ[i].typ)) =>
        KeysOf(out.pks.e) = KeysOf(ParseObj("ptr", typ, Canonical(typ, r)).pks.e)

SameKeyOrderWitness ==
    /\ Extracted
    /\ typ = Obj
    /\ out.err = NoErr
    /\ Cardinality(SetPks(typ, r)) = 3
    /\ r # Canonical(typ, r)
    /\ KeysOf(out.pks.e) = << <<"p", "k", "1">>, <<"p", "k", "2">>, <<"p", "k", "3">> >>

----------------------------------------------------------------------------
\* C4. Idempotence: a ParseObj call that directly follows a ParseObj call
\* with the same obj returns the same pks, cols and err as the first.
ExtractIdempotent ==
    [][(op = "ParseObj" /\ op' = "ParseObj" /\ calls' = calls + 1 /\ arg' = arg)
       => out' = out]_vars

ExtractTwiceWitness ==
    /\ Extracted
    /\ calls = 2
    /\ out.err = NoErr
    /\ Len(out.pks.e) >= 2
    /\ Len(out.cols.e) >= 2

----------------------------------------------------------------------------
\* C5. ParseObj skips every unset field: the tuple holds one pair per set
\* key field and the attribute set one pair per set non-key field, none
\* of them for a nil value; with only key fields set the tuple is not
\* empty and the attribute set is empty.
UnsetFieldsOmitted ==
    (Extracted /\ out.err = NoErr) =>
        /\ Len(out.pks.e) = Cardinality(SetPks(typ, r))
        /\ Len(out.cols.e) = Cardinality(SetCols(typ, r))
        /\ \A i \in 1..Len(out.pks.e) : out.pks.e[i].Value # Nil
        /\ \A i \in 1..Len(out.cols.e) : out.cols.e[i].Value # Nil
        /\ (SetPks(typ, r) # {} /\ SetCols(typ, r) = {}) =>
               (out.pks.e # <<>> /\ ~out.cols.nil /\ out.cols.e = <<>>)

OnlyKeysSetWitness ==
    /\ Extracted
    /\ typ = TestRow
    /\ out.err = NoErr
    /\ r[1] # Nil /\ r[2] # Nil /\ r[3] = Nil
    /\ r[4] = Nil /\ r[5] = Nil /\ r[6] = Nil
    /\ Len(out.pks.e) = 2
    /\ out.cols.e = <<>>

----------------------------------------------------------------------------
\* Notions the properties of ParseResult are stated in

\* the field a pair named key is assigned to, 0 when there is none: the
\* last settable field whose column name is key
Target(T, key) ==
    LET S == {i \in 1..Len(T) :
                 T[i].exported /\ T[i].json # <<>> /\ StripModifier(T[i].json) = key}
    IN  IF S = {} THEN 0 ELSE CHOOSE i \in S : \A j \in S : j <= i

\* the runtime kind of v is the declared kind of a field of type t
Fits(t, v) == Supported(t) /\ ~v.named /\ t.kind = v.kind /\ t.elem = v.elem

\* the field value fv carries the value v
Carries(fv, v) == fv.kind = v.kind /\ fv.elem = v.elem /\ fv.s = v.s /\ fv.i = v.i /\ fv.b = v.b

\* the pairs of the last ParseResult call in processing order
Processed == given.pks \o given.cols

OriginOf(k) == IF k <= Len(given.pks) THEN "primary key" ELSE "column"

\* pair j is accepted: no field matches it, or its value fits the field
Accepted(p) == Target(typ, p.Key) = 0 \/ Fits(typ[Target(typ, p.Key)].typ, p.Value)

\* pair j is the last of the first n pairs assigned to its field
LastFor(j, n) ==
    \A m \in (j + 1)..n : Target(typ, Processed[m].Key) # Target(typ, Processed[j].Key)

\* the last call was a ParseResult of a pointer to the record r2
Materialized == op = "ParseResult" /\ IsRecordPtr(arg)

----------------------------------------------------------------------------
\* C6. When the first pair ParseResult cannot assign carries a string for a
\* field declared *int64, the error is a type mismatch naming the pair's
\* column, as primary key or column, the expected kind int64 and the actual
\* kind string; every field assigned by a pair before it holds that pair's
\* value.
TypeMismatchKeepsAssigned ==
    Materialized =>
        \A k \in 1..Len(Processed) :
            LET p == Processed[k]
                f == Target(typ, p.Key)
            IN  (/\ \A j \in 1..(k - 1) : Accepted(Processed[j])
                 /\ f # 0
                 /\ typ[f].typ = PtrInt64
                 /\ p.Value.kind = "string")
                => /\ perr = Error("type mismatch", "", p.Key, OriginOf(k), "int64", "string")
                   /\ \A j \in 1..(k - 1) :
                          (Target(typ, Processed[j].Key) # 0 /\ LastFor(j, k - 1)) =>
                              Carries(r2[Target(typ, Processed[j].Key)], Processed[j].Value)

TypeMismatchWitness ==
    /\ Materialized
    /\ typ = MyRow
    /\ given = Pairs(<<KeyValue(<<"p", "k", "1">>, StringV("b"))>>,
                     <<KeyValue(<<"c", "o", "l", "2">>, StringV("a"))>>)
    /\ perr.kind = "type mismatch"
    /\ r2 = <<StringV("b"), Nil, Nil>>

----------------------------------------------------------------------------
\* C7. When a field of the record type has a kind outside *string, *int64
\* and *[]byte, ParseObj fails with the invalid-field-type error naming the
\* first such field and returns nil pks and nil cols, whatever fields are
\* set.
InvalidFieldTypeRejected ==
    (Extracted /\ \E i \in 1..Len(typ) : ~Supported(typ[i].typ)) =>
        LET bad == CHOOSE i \in 1..Len(typ) :
                       /\ ~Supported(typ[i].typ)
                       /\ \A j \in 1..(i - 1) : Supported(typ[j].typ)
        IN  /\ out.err.kind = "invalid field type"
            /\ out.err.field = typ[bad].name
            /\ out.pks = NilSlice
            /\ out.cols = NilSlice

InvalidFieldTypeWitness ==
    /\ Extracted
    /\ typ = FlagRow
    /\ r[1] # Nil
    /\ out.err.kind = "invalid field type"
    /\ out.err.field = "Flag"
    /\ out.pks.nil /\ out.cols.nil

----------------------------------------------------------------------------
\* C8. A pair whose name matches no field is ignored by ParseResult: when
\* every pair that matches a field carries a value of the field's kind, the
\* call succeeds, every matched field holds the value of the last pair
\* naming it, and every other field of the zero-valued record stays unset.
UnknownColumnsIgnored ==
    (Materialized /\ \A k \in 1..Len(Processed) : Accepted(Processed[k])) =>
        /\ perr = NoErr
        /\ \A k \in 1..Len(Processed) :
               (Target(typ, Processed[k].Key) # 0 /\ LastFor(k, Len(Processed))) =>
                   Carries(r2[Target(typ, Processed[k].Key)], Processed[k].Value)
        /\ \A f \in 1..Len(typ) :
               (\A k \in 1..Len(Processed) : Target(typ, Processed[k].Key) # f) =>
                   r2[f] = Zero(typ)[f]

UnknownColumnWitness ==
    /\ Materialized
    /\ typ = MyRow
    /\ given = Pairs(<<KeyValue(<<"x">>, StringV("a"))>>,
                     <<KeyValue(<<"c", "o", "l", "2">>, Int64V(7))>>)
    /\ perr = NoErr
    /\ r2 = <<Nil, Nil, Int64V(7)>>

----------------------------------------------------------------------------
\* C9. ParseObj is read-only: every ParseObj call, successful or failing,
\* leaves every field of the record as it was.
ExtractReadOnly ==
    [][(op' = "ParseObj" /\ calls' = calls + 1) => r' = r]_vars

ExtractReadOnlyWitness ==
    /\ Extracted
    /\ typ = IntsRow
    /\ r[2] # Nil
    /\ out.err # NoErr

----------------------------------------------------------------------------
\* C10. Given an obj that is no pointer, or a pointer to something that is
\* no struct, ParseObj returns an error with nil pks and nil cols and
\* ParseResult returns an error, and no record is changed; ParseResult given
\* a nil pointer returns an error too.
BadObjRejected ==
    [][/\ (op' = "ParseObj" /\ calls' = calls + 1 /\ arg' \in {"nil", "struct"}) =>
              /\ out'.err.kind = "obj must be a pointer"
              /\ out'.pks = NilSlice /\ out'.cols = NilSlice
              /\ r' = r /\ r2' = r2
       /\ (op' = "ParseObj" /\ calls' = calls + 1 /\ arg' = "ptrint") =>
              /\ out'.err.kind = "obj must be a struct or pointer to struct"
              /\ out'.pks = NilSlice /\ out'.cols = NilSlice
              /\ r' = r /\ r2' = r2
       /\ (op' = "ParseResult" /\ arg' \in {"nil", "struct", "nilptr"}) =>
              /\ perr'.kind = "parseResult: obj must be a non-nil pointer to struct"
              /\ r' = r /\ r2' = r2
       /\ (op' = "ParseResult" /\ arg' = "ptrint") =>
              /\ perr'.kind = "parseResult: obj must be a pointer to struct"
              /\ r' = r /\ r2' = r2
      ]_vars

BadObjWitness ==
    /\ op = "ParseResult"
    /\ arg = "nilptr"
    /\ perr # NoErr
    /\ given.pks # <<>> /\ given.cols # <<>>
    /\ r2 = Zero(typ)

----------------------------------------------------------------------------
\* C11. ParseObj of a record in which no field is set, of a type whose
\* fields are all *string, *int64 or *[]byte, succeeds and returns an empty
\* primary-key tuple and an empty attribute set, both non-nil.
AllUnsetExtractsEmpty ==
    (/\ Extracted
     /\ \A i \in 1..Len(typ) : Supported(typ[i].typ)
     /\ \A i \in 1..Len(typ) : r[i] = Nil)
    => /\ out.err = NoErr
       /\ out.pks = Slice(<<>>)
       /\ out.cols = Slice(<<>>)

AllUnsetWitness ==
    /\ Extracted
    /\ typ = TestRow
    /\ r = Zero(TestRow)
    /\ out = ParseObjResult(Slice(<<>>), Slice(<<>>), NoErr)

----------------------------------------------------------------------------
\* C12. ParseResult is fail-fast: the error it returns is the one of the
\* first pair it cannot assign, in the order primary-key tuple then
\* attribute set, a type mismatch when the field's kind is supported, and
\* no pair after that one is assigned: a field no earlier pair names stays
\* unset and a field earlier pairs name keeps the last of their values.

\* k is the first pair of the last ParseResult call that cannot be assigned
FirstFailing(k) ==
    /\ k \in 1..Len(Processed)
    /\ ~Accepted(Processed[k])
    /\ \A j \in 1..(k - 1) : Accepted(Processed[j])

FailFast ==
    Materialized =>
        \A k \in 1..Len(Processed) :
            FirstFailing(k) =>
                /\ perr # NoErr
                /\ perr.key = Processed[k].Key
                /\ Supported(typ[Target(typ, Processed[k].Key)].typ) =>
                       /\ perr.kind = "type mismatch"
                       /\ perr.actual = TypeName(Processed[k].Value)
                /\ \A f \in 1..Len(typ) :
                       (\A j \in 1..(k - 1) : Target(typ, Processed[j].Key) # f) =>
                           r2[f] = Zero(typ)[f]
                /\ \A j \in 1..(k - 1) :
                       (Target(typ, Processed[j].Key) # 0 /\ LastFor(j, k - 1)) =>
                           Carries(r2[Target(typ, Processed[j].Key)], Processed[j].Value)

FailFastWitness ==
    /\ Materialized
    /\ typ = MyRow
    /\ given = Pairs(<<KeyValue(<<"p", "k", "1">>, Int64V(7))>>,
                     <<KeyValue(<<"c", "o", "l", "1">>, StringV("b"))>>)
    /\ perr.kind = "type mismatch"
    /\ r2 = Zero(MyRow)

----------------------------------------------------------------------------
\* C13. A type mismatch returned by ParseResult is tagged with where the
\* failing pair came from and with its column name: "primary key" and the
\* name when the pair is of the primary-key tuple, "column" and the name
\* when it is of the attribute set, also when both lists carry the name.
MismatchNamesOrigin ==
    Materialized =>
        /\ \A k \in 1..Len(Processed) :
               (FirstFailing(k) /\ Supported(typ[Target(typ, Processed[k].Key)].typ)) =>
                   /\ perr.kind = "type mismatch"
                   /\ perr.origin = OriginOf(k)
                   /\ perr.key = Processed[k].Key
        /\ perr.kind = "type mismatch" =>
               /\ perr.origin \in {"primary key", "column"}
               /\ perr.origin = "primary key" =>
                      \E k \in 1..Len(given.pks) :
                          FirstFailing(k) /\ given.pks[k].Key = perr.key
               /\ perr.origin = "column" =>
                      /\ \A k \in 1..Len(given.pks) : Accepted(given.pks[k])
                      /\ \E k \in 1..Len(given.cols) :
                             /\ FirstFailing(Len(given.pks) + k)
                             /\ given.cols[k].Key = perr.key

MismatchOriginWitness ==
    /\ Materialized
    /\ typ = MyRow
    /\ given = Pairs(<<KeyValue(<<"c", "o", "l", "1">>, StringV("a"))>>,
                     <<KeyValue(<<"c", "o", "l", "1">>, BytesV(<<9>>))>>)
    /\ perr = Error("type mismatch", "", <<"c", "o", "l", "1">>, "column",
                    "string", "[]uint8")
    /\ r2 = <<Nil, StringV("a"), Nil>>

----------------------------------------------------------------------------
\* C14. A field without json tag is no part of the mapping: ParseObj emits
\* no pair for it, also when it is set, so a successful ParseObj returns as
\* many pairs as there are set fields with a json tag, none named "".
UntaggedFieldEmitsNoPair ==
    (Extracted /\ out.err = NoErr) =>
        /\ Len(out.pks.e) + Len(out.cols.e)
               = Cardinality({i \in 1..Len(typ) : r[i] # Nil /\ typ[i].json # <<>>})
        /\ \A i \in 1..Len(out.pks.e) : out.pks.e[i].Key # <<>>
        /\ \A i \in 1..Len(out.cols.e) : out.cols.e[i].Key # <<>>

----------------------------------------------------------------------------
----------------------------------------------------------------------------
\* C16. The attribute set is keyed by column name: no two of its entries
\* carry the same name, and when several set non-key fields carry one name
\* its entry holds the value of the field declared last.
AttributeSetKeyedByName ==
    (Extracted /\ out.err = NoErr) =>
        LET cols == out.cols.e
        IN  /\ \A i, j \in 1..Len(cols) : cols[i].Key = cols[j].Key => i = j
            /\ \A i \in 1..Len(cols) :
                   LET S == {f \in SetCols(typ, r) : typ[f].json = cols[i].Key}
                   IN  cols[i].Value = r[CHOOSE f \in S : \A g \in S : g <= f]

----------------------------------------------------------------------------
\* C19. NewClient panics exactly when one of its four strings is empty and
\* otherwise returns a non-nil client made of them; WithContext panics
\* exactly when TableName is empty or Client is nil (or the params pointer
\* itself is nil), so every params a context carries has a table name and
\* a client.
ContextCarriesUsableParams ==
    /\ op = "NewClient" =>
           /\ fault = "panic" <=> \E i \in 1..4 : creds[i] = ""
           /\ fault = "none" =>
                  /\ ~client.nil
                  /\ client = Client(creds[1], creds[2], creds[3], creds[4])
    /\ op = "WithContext" =>
           (fault = "panic" <=> (recv.nil \/ recv.TableName = "" \/ recv.Client.nil))
    /\ \A i \in 1..Len(ctx) :
           ~ctx[i].nil /\ ctx[i].TableName # "" /\ ~ctx[i].Client.nil

ContextGuardWitness ==
    /\ op = "WithContext"
    /\ fault = "panic"
    /\ ~recv.nil /\ recv.TableName # "" /\ recv.Client.nil
    /\ ~client.nil
    /\ Len(ctx) = 1

----------------------------------------------------------------------------
\* C20. OtsUtilsParamsFromCtx of the context a successful p.WithContext
\* returned is p itself, the same pointer, and with several params attached
\* it returns the one attached last.
InnermostParamsReturned ==
    /\ (op = "WithContext" /\ fault = "none") =>
           OtsUtilsParamsFromCtx(ctx) = Outcome(recv, FALSE)
    /\ (op = "OtsUtilsParamsFromCtx" /\ fault = "none") =>
           /\ ret = ctx[Len(ctx)]
           /\ ~ret.nil

InnermostParamsWitness ==
    /\ op = "OtsUtilsParamsFromCtx"
    /\ fault = "none"
    /\ Len(ctx) = 2
    /\ ctx[1].id # ctx[2].id
    /\ ctx[1].TableName # ctx[2].TableName
    /\ ret = ctx[2]

----------------------------------------------------------------------------
\* Notions the properties of the operations are stated in

\* the record g holds the key fields of the record p and nothing else
OnlyKeyOf(g, p) ==
    \A f \in 1..Len(typ) : g[f] = IF IsPk(typ[f]) THEN p[f] ELSE Nil

\* the last operation returned without error
Succeeded == fault = "none" /\ oerr = NoErr

\* a GetRow of a record holding only the key of the record of the operation
\* before it, the remote call not failing
GetRowOfSameKey ==
    /\ op' = "GetRow"
    /\ arg' = "ptr"
    /\ OnlyKeyOf(r', r)
    /\ oerr'.kind # "remote"

\* no json tag of the record type carries a modifier
PlainTags(T) == \A i \in 1..Len(T) : StringsIndex(T[i].json, ",") = -1

----------------------------------------------------------------------------
\* C17. Against a store that is a map from primary key to columns: a GetRow
\* of a record holding only the key of the record a successful PutRow just
\* put succeeds and leaves the record with the attribute fields as they
\* were put; a GetRow after a successful UpdateRow succeeds and leaves
\* every attribute field the updating record had set with that value.
PutGetUpdateGet ==
    [][/\ (op = "PutRow" /\ Succeeded /\ GetRowOfSameKey) =>
              /\ fault' = "none" /\ oerr' = NoErr
              /\ \A f \in 1..Len(typ) : r2'[f] = r[f]
       /\ (op = "UpdateRow" /\ Succeeded /\ GetRowOfSameKey) =>
              /\ fault' = "none" /\ oerr' = NoErr
              /\ \A f \in 1..Len(typ) : r[f] # Nil => r2'[f] = r[f]
      ]_vars

\* For record types whose json tags carry no modifier the same holds.
PutGetUpdateGetPlainTags ==
    [][PlainTags(typ) =>
       /\ (op = "PutRow" /\ Succeeded /\ GetRowOfSameKey) =>
              /\ fault' = "none" /\ oerr' = NoErr
              /\ \A f \in 1..Len(typ) : r2'[f] = r[f]
       /\ (op = "UpdateRow" /\ Succeeded /\ GetRowOfSameKey) =>
              /\ fault' = "none" /\ oerr' = NoErr
              /\ \A f \in 1..Len(typ) : r[f] # Nil => r2'[f] = r[f]
      ]_vars

\* a row put, updated in another column and read back
PutUpdateGetReached ==
    /\ typ = MyRow
    /\ op = "GetRow"
    /\ Succeeded
    /\ r = <<StringV("a"), Nil, Nil>>
    /\ r2 = <<StringV("a"), StringV("a"), Int64V(7)>>
    /\ Cardinality(DOMAIN store) = 2

----------------------------------------------------------------------------
\* C18. The request of PutRow carries the condition EXPECT_NOT_EXIST and
\* the request of UpdateRow the condition IGNORE when no params are passed
\* or the first params' RowExistenceExpectation is nil; otherwise it
\* carries the expectation of the first params; params after the first
\* change nothing.
ConditionFromFirstParams ==
    (op \in {"PutRow", "UpdateRow"} /\ oerr = NoErr) =>
        /\ req.kind = op
        /\ req.Condition =
               IF prm # <<>> /\ prm[1].RowExistenceExpectation # NilExpectation
               THEN prm[1].RowExistenceExpectation
               ELSE IF op = "PutRow" THEN "EXPECT_NOT_EXIST" ELSE "IGNORE"
        /\ \E rng \in RangeOrders(op, arg, typ, r) :
               req = BuildRequest(op, CtxValue(ctx), arg, typ, r,
                                  toAnySlice(IF prm = <<>> THEN <<>> ELSE <<prm[1]>>),
                                  rng).req

ConditionWitness ==
    /\ op = "PutRow"
    /\ oerr = NoErr
    /\ Len(prm) = 2
    /\ prm[1].RowExistenceExpectation = "EXPECT_EXIST"
    /\ prm[2].RowExistenceExpectation = "IGNORE"
    /\ req.Condition = "EXPECT_EXIST"

----------------------------------------------------------------------------
\* the three operations
Operations == {"PutRow", "UpdateRow", "GetRow"}

\* the step named s ran in the last operation
Ran(s) == \E i \in 1..Len(steps) : steps[i] = s

----------------------------------------------------------------------------
\* C21. PutRow, UpdateRow and GetRow called with the record passed by value
\* return the error of ParseObj ("obj must be a pointer"): no request is
\* built, the execute step does not run, the store is unchanged and so is
\* the record.
ByValueRejected ==
    [][(op' \in Operations /\ arg' = "struct" /\ fault' = "none") =>
           /\ oerr' = ParseObj("struct", typ, r').err
           /\ oerr'.kind = "obj must be a pointer"
           /\ req' = NoReq
           /\ ~Ran("execute")'
           /\ store' = store
           /\ r2' = r'
      ]_vars

\* a record passed by value to PutRow when the table already holds a row
ByValueWitness ==
    /\ op = "PutRow"
    /\ arg = "struct"
    /\ fault = "none"
    /\ oerr.kind = "obj must be a pointer"
    /\ r[2] # Nil
    /\ store # <<>>

----------------------------------------------------------------------------
\* C22. An operation that does not panic runs build, execute, handle in
\* that order, each at most once, and stops at the first step that fails:
\* when ParseObj fails in build, no request exists, execute does not run,
\* the store is unchanged and the operation returns ParseObj's error; when
\* execute fails (the remote call fails or the row existence condition does
\* not hold), the handler does not run, store and record are unchanged and
\* the operation returns the error of execute; only GetRow has a handler.
StepsInOrderFailFast ==
    [][(op' \in Operations /\ fault' = "none") =>
           \E po \in {ParseObj(arg', typ, r')} :
               IF po.err # NoErr
               THEN /\ steps' = <<"build">>
                    /\ oerr' = po.err /\ req' = NoReq
                    /\ store' = store /\ r2' = r'
               ELSE \E ex \in {Execute(store, req', outage')} :
                    IF ex.err # NoErr
                    THEN /\ steps' = <<"build", "execute">>
                         /\ oerr' = ex.err
                         /\ store' = store /\ r2' = r'
                    ELSE /\ steps' = IF op' = "GetRow"
                                     THEN <<"build", "execute", "handle">>
                                     ELSE <<"build", "execute">>
                         /\ store' = ex.store
                         /\ op' # "GetRow" => oerr' = NoErr /\ r2' = r'
      ]_vars

\* a GetRow of a row the table holds, the remote call failing
ExecuteFailedWitness ==
    /\ op = "GetRow"
    /\ fault = "none"
    /\ steps = <<"build", "execute">>
    /\ outage
    /\ oerr.kind = "remote"
    /\ req.PrimaryKey \in DOMAIN store
    /\ store[req.PrimaryKey] # <<>>
    /\ r2 = r

----------------------------------------------------------------------------
\* the elements of a list
Elems(l) == {l[i] : i \in 1..Len(l)}

\* the row a read of the primary key pk finds in the table st
RowRead(st, pk) ==
    IF pk \in DOMAIN st THEN Pairs(pk, ColumnsOf(st[pk], DOMAIN st[pk]))
    ELSE Pairs(<<>>, <<>>)

----------------------------------------------------------------------------
\* C23. A GetRow that does not panic leaves every field of the caller's
\* record unchanged when ParseObj fails or the remote call fails, and
\* otherwise leaves the record as ParseResult leaves it given the row read;
\* GetRow changes no row of the table, and its request carries the primary
\* key pairs of the record and no attribute pair.
GetRowWritesOnlyAfterRead ==
    [][(op' = "GetRow" /\ fault' = "none") =>
           \E po \in {ParseObj(arg', typ, r')} :
               /\ store' = store
               /\ (po.err # NoErr \/ outage') => (r2' = r' /\ oerr' # NoErr)
               /\ (po.err = NoErr /\ ~outage') =>
                      \E row \in {RowRead(store, req'.PrimaryKey)} :
                          r2' = ParseResult(arg', typ, r', row.pks, row.cols).rec
               /\ po.err = NoErr =>
                      /\ req'.kind = "GetRow"
                      /\ req'.Changes = <<>>
                      /\ Len(req'.PrimaryKey) = Len(po.pks.e)
                      /\ Elems(req'.PrimaryKey) = Elems(po.pks.e)
                      /\ \A f \in 1..Len(typ) :
                             ~IsPk(typ[f]) =>
                                 \A p \in Elems(req'.PrimaryKey) : p.Key # typ[f].json
      ]_vars

\* a GetRow of a record with an attribute field set that read a row and
\* filled another field
GetRowWitness ==
    /\ op = "GetRow"
    /\ fault = "none"
    /\ oerr = NoErr
    /\ steps = <<"build", "execute", "handle">>
    /\ r[2] # Nil
    /\ r2 # r
    /\ req.Changes = <<>>

----------------------------------------------------------------------------
\* C29. PutRow, UpdateRow and GetRow called with a context no params were
\* attached to panic: no step runs, no request is built, no error is
\* returned, and the table and the caller's record are unchanged.
NoParamsPanics ==
    [][(op' \in Operations /\ ctx' = <<>>) =>
           /\ fault' = "panic"
           /\ steps' = <<>>
           /\ req' = NoReq
           /\ oerr' = NoErr
           /\ store' = store
           /\ r2' = r'
      ]_vars

\* a PutRow of a valid record pointer with nothing attached to the context
NoParamsWitness ==
    /\ op = "PutRow"
    /\ ctx = <<>>
    /\ arg = "ptr"
    /\ r[1] # Nil /\ r[2] # Nil
    /\ fault = "panic"

----------------------------------------------------------------------------
\* C24. The request PutRow, UpdateRow or GetRow builds for a record carries
\* as its primary key the pairs ParseObj returns as pks, in that order
\* (ascending ordinal), each with the name and value of the pair.
PrimaryKeyInExtractOrder ==
    (op \in Operations /\ oerr = NoErr /\ steps = <<"build">>) =>
        req.PrimaryKey = ParseObj(arg, typ, r).pks.e

\* The pairs are those of pks, whatever their order.
PrimaryKeyPairsOfExtract ==
    (op \in Operations /\ oerr = NoErr /\ steps = <<"build">>) =>
        /\ Len(req.PrimaryKey) = Len(ParseObj(arg, typ, r).pks.e)
        /\ Elems(req.PrimaryKey) = Elems(ParseObj(arg, typ, r).pks.e)

\* a request whose primary key columns are not in ordinal order
PrimaryKeyOutOfOrderReached ==
    /\ op = "PutRow"
    /\ oerr = NoErr
    /\ Len(req.PrimaryKey) = 3
    /\ req.PrimaryKey # ParseObj(arg, typ, r).pks.e

----------------------------------------------------------------------------
\* the part of the list l after its first n elements, at most m long
Part(l, n, m) == [i \in 1..(IF Len(l) - n < m THEN Len(l) - n ELSE m) |-> l[n + i]]

\* C25. The row change UpdateRow builds holds, in this order: one delete per
\* name of the first params' DeletedColumns, in their order; one put per
\* pair of its UpdatedColumns; one put per attribute field of the record
\* that is set, under the name and with the value ParseObj returns in cols.
\* No put or delete comes from a key field or from an unset attribute
\* field, and the key fields that are set make up the primary key.
UpdateRowChangeOrder ==
    (op = "UpdateRow" /\ oerr = NoErr /\ steps = <<"build">>) =>
        LET d == IF prm = <<>> THEN <<>> ELSE prm[1].DeletedColumns
            u == IF prm = <<>> THEN <<>> ELSE prm[1].UpdatedColumns
            fromRecord == Part(req.Changes, Len(d) + Len(u), Len(req.Changes))
        IN  /\ Len(req.Changes) = Len(d) + Len(u) + Cardinality(SetCols(typ, r))
            /\ Part(req.Changes, 0, Len(d)) = Deletes(d)
            /\ Elems(Part(req.Changes, Len(d), Len(u))) = Elems(Puts(u))
            /\ Elems(fromRecord) =
                   {Change("put", typ[f].json, r[f]) : f \in SetCols(typ, r)}
            /\ \A f \in 1..Len(typ) :
                   (IsPk(typ[f]) \/ r[f] = Nil) =>
                       \A c \in Elems(fromRecord) : c.name # typ[f].json
            /\ Elems(req.PrimaryKey) =
                   {KeyValue(typ[f].json, r[f]) : f \in SetPks(typ, r)}

\* an UpdateRow with a deleted column, an updated column and a record with
\* one attribute field set and one unset
UpdateRowChangeWitness ==
    /\ op = "UpdateRow"
    /\ oerr = NoErr
    /\ typ = MyRow
    /\ r[2] # Nil /\ r[3] = Nil
    /\ prm # <<>>
    /\ prm[1].DeletedColumns # <<>>
    /\ prm[1].UpdatedColumns # <<>>
    /\ Len(req.Changes) = 3
    /\ req.Changes[1].type = "delete"

----------------------------------------------------------------------------
\* the number of pairs ParseResult assigned or skipped before it returned:
\* all of them, or those before the first pair it cannot assign, the
\* primary keys counted before the columns
Done ==
    IF \A k \in 1..Len(Processed) : Accepted(Processed[k]) THEN Len(Processed)
    ELSE (CHOOSE k \in 1..Len(Processed) :
              /\ ~Accepted(Processed[k])
              /\ \A j \in 1..(k - 1) : Accepted(Processed[j])) - 1

\* the pairs among the first n that are assigned to field f
PairsFor(f, n) == {j \in 1..n : Target(typ, Processed[j].Key) = f}

----------------------------------------------------------------------------
\* C26. ParseResult processes the pairs of pks in list order and then the
\* pairs of cols in list order, up to the first pair it cannot assign: a
\* field named by several of the processed pairs holds the value of the
\* last of them in that order, so a pair of cols overrides a pair of pks of
\* the same name; a field named by none of them stays as it was.
PksThenColsLastWins ==
    Materialized =>
        /\ perr = NoErr <=> Done = Len(Processed)
        /\ \A f \in 1..Len(typ) :
               IF PairsFor(f, Done) = {} THEN r2[f] = Zero(typ)[f]
               ELSE LET last == CHOOSE j \in PairsFor(f, Done) :
                                    \A m \in PairsFor(f, Done) : m <= j
                    IN  Carries(r2[f], Processed[last].Value)

\* a primary key pair and a column pair of the same name with different
\* values
PkOverriddenWitness ==
    /\ Materialized
    /\ perr = NoErr
    /\ given = Pairs(<<KeyValue(<<"p", "k", "1">>, StringV("a"))>>,
                     <<KeyValue(<<"p", "k", "1">>, StringV("b"))>>)
    /\ r2[1] = StringV("b")

----------------------------------------------------------------------------
\* C27. A ParseResult that succeeds changes only the fields named by the
\* pairs it is given: a field no pair names keeps the value it had, set or
\* unset, and a field a pair names holds the value of the last pair naming
\* it, whether it was set before or not.
OnlyNamedFieldsChange ==
    [][(op' = "ParseResult" /\ IsRecordPtr(arg') /\ perr' = NoErr) =>
           \A f \in 1..Len(typ) :
               \E named \in {PairsFor(f, Len(Processed))'} :
                   IF named = {} THEN r2'[f] = r2[f]
                   ELSE Carries(r2'[f],
                                Processed'[CHOOSE j \in named :
                                               \A m \in named : m <= j].Value)
      ]_vars

\* a record with all fields set given a row of one column: the field of the
\* column changes its value, the others keep theirs
OverwriteWitness ==
    /\ Materialized
    /\ perr = NoErr
    /\ typ = MyRow
    /\ given = Pairs(<<>>, <<KeyValue(<<"c", "o", "l", "1">>, StringV("b"))>>)
    /\ r2 = <<StringV("a"), StringV("b"), Int64V(7)>>

----------------------------------------------------------------------------
\* the pairs the last ParseObj returned
Emitted == out.pks.e \o out.cols.e

\* the column name of pair p is one ParseResult looks up, and the field it
\* finds there carries that name as its json tag
LookedUp(p) ==
    /\ p.Key \in DOMAIN fieldMap(typ)
    /\ typ[fieldMap(typ)[p.Key]].json = p.Key

\* C28. ParseObj and ParseResult agree on the column name of every field:
\* for a record type with exported fields, every non-empty column name
\* ParseObj emits a pair under is a name ParseResult finds a field under,
\* that field carrying the name as its json tag, also when the tag has a
\* modifier such as ",omitempty".
ColumnNamesAgree ==
    (Extracted /\ out.err = NoErr /\ \A f \in 1..Len(typ) : typ[f].exported) =>
        \A i \in 1..Len(Emitted) : Emitted[i].Key # <<>> => LookedUp(Emitted[i])

\* For record types whose json tags carry no modifier they agree.
ColumnNamesAgreePlainTags ==
    (/\ Extracted /\ out.err = NoErr
     /\ \A f \in 1..Len(typ) : typ[f].exported
     /\ PlainTags(typ)) =>
        \A i \in 1..Len(Emitted) : Emitted[i].Key # <<>> => LookedUp(Emitted[i])

\* a field tagged "col1,omitempty" emitted under the whole tag, which
\* ParseResult has no field for
ModifierKeptReached ==
    /\ Extracted
    /\ typ = OmitRow
    /\ out.err = NoErr
    /\ Len(out.cols.e) = 1
    /\ out.cols.e[1].Key = OmitRow[2].json
    /\ OmitRow[2].json \notin DOMAIN fieldMap(typ)
    /\ fieldMap(typ)[StripModifier(OmitRow[2].json)] = 2

----------------------------------------------------------------------------
\* C30. The []any toAnySlice makes of the params of an operation has the
\* length of the params and holds at every index the params value of that
\* index, under its own type; of no params it makes the empty slice.
ToAnySliceCopies ==
    (op \in Operations) =>
        /\ Len(anys) = Len(prm)
        /\ \A i \in 1..Len(prm) : anys[i] = AnyValue(TypeOf(prm[i]), prm[i])
        /\ prm = <<>> => anys = <<>>

\* two different params converted
ToAnySliceWitness ==
    /\ op = "UpdateRow"
    /\ Len(prm) = 2
    /\ prm[1] # prm[2]
    /\ Len(anys) = 2
    /\ anys[1].val = prm[1]
    /\ anys[2].val = prm[2]

====
